---------------------------- MODULE Spec2Model ----------------------------
(***************************************************************************)
(* Model of the service-watcher plugin: the poll loop of main.py, the      *)
(* check pipeline of lib/status_checker.py (fetch, get_status_info, the    *)
(* key-value comparison), the notifier of main.py and the two command      *)
(* handlers of lib/commands.py.                                            *)
(*                                                                         *)
(* Every await of the code is one step of the model, so that coroutines    *)
(* interleave exactly where the event loop can switch between them.        *)
(***************************************************************************)
EXTENDS Integers, Sequences, FiniteSets, TLC

VARIABLES
    services,        \* ServiceWatcher.services: the enabled services (dict keys)
    notify_targets,  \* ServiceWatcher.notify_targets: ordered recipients
    check_interval,  \* ServiceWatcher.check_interval as read from the config
    error_backoff,   \* _monitor_loop's local error_backoff
    loop_pc,         \* position of the _monitor_loop coroutine
    kv,              \* the host key-value store (get_kv_data / put_kv_data)
    task,            \* one record per running check_service / _check_and_notify
    cmd,             \* the command handler generator in progress
    session,         \* StatusAPIClient.session: "none", "open" or "closed"
    failures,        \* iterations of the loop that ended in `except`, in a row
    terminated,      \* terminate() has run
    adapter_call     \* the last call of an adapter of lib/adapters.py

vars == <<services, notify_targets, check_interval, error_backoff, loop_pc, kv, task, cmd,
          session, failures, terminated, adapter_call>>

----------------------------------------------------------------------------
(* Bounds of the model *)

\* longest notify_targets list drawn from the configuration
MaxTargets == 2

\* the count of failed iterations in a row stops at this value
MaxFailures == 2

----------------------------------------------------------------------------
(* Values *)

\* Python's None, for identities, entry fields and descriptions
NoneVal == "<None>"

\* Python truthiness of a string-or-None value (operands of `or`)
TruthyStr(v) == v # NoneVal /\ v # ""

\* a or b
Or(a, b) == IF TruthyStr(a) THEN a ELSE b

\* dict.get(key, default) on a record standing for a dict
Get(d, k, default) == IF k \in DOMAIN d THEN d[k] ELSE default

Min(a, b) == IF a <= b THEN a ELSE b

----------------------------------------------------------------------------
(* The catalogue of services (services.json filtered by load_from_config)  *)

Catalog == {"svcA", "svcB", "svcC"}

\* Service.type of each catalogue entry, any string services.json gives:
\* svcC is the vendor's list of events in progress
ServiceType(s) ==
    CASE s = "svcA" -> "statuspage"
      [] s = "svcB" -> "rss"
      [] OTHER -> "aliyun"

\* the sets of services the configuration enables: any of svcA and svcB,
\* or svcC by itself
EnabledSets == SUBSET {"svcA", "svcB"} \cup {{"svcC"}}

\* names a user may pass to /servicetest: catalogue entries and one unknown name
Names == {"svcA", "svcB", "ghost"}

\* kv_key = f"service_watcher_{service_name}_last_id"
KvKey(s) == "service_watcher_" \o s \o "_last_id"

KvKeys == {KvKey(s) : s \in Catalog}

----------------------------------------------------------------------------
(* What a fetch can return.  kind "None": the client returned None (network *)
(* error, timeout, non-200, parse error).  kind "dict": a JSON object or a  *)
(* parsed feed.  kind "list": a JSON value that is truthy but not a dict.   *)

NoneData == [kind |-> "None"]

EmptyDict == [kind |-> "dict", size |-> 0]

StatusPagePayloads ==
    { [kind |-> "dict", size |-> 1,
       status |-> [indicator |-> "none", description |-> "All Systems Operational"]],
      [kind |-> "dict", size |-> 1,
       status |-> [indicator |-> "major", description |-> "Major Service Outage"]] }

FeedPayloads ==
    { [kind |-> "dict", size |-> 2, entries |-> << >>],
      [kind |-> "dict", size |-> 2,
       entries |-> << [id |-> "e1", link |-> "http://l/1", title |-> "t1"] >>],
      [kind |-> "dict", size |-> 2,
       entries |-> << [published |-> "p2", link |-> "http://l/2", title |-> "t2"] >>],
      [kind |-> "dict", size |-> 2, entries |-> << [title |-> "t3"] >>] }

\* StatusAPIClient.fetch_json: None on any failure, else response.json()
fetch_json == {NoneData, EmptyDict, [kind |-> "list", size |-> 1]} \cup StatusPagePayloads

\* feedparser.parse of a body that is no feed: it does not raise, it
\* returns a parsed feed without entries and with bozo set
BozoFeed == [kind |-> "dict", size |-> 2, entries |-> << >>, bozo |-> 1]

\* StatusAPIClient.fetch_rss: None on a non-200 status or an exception, else
\* feedparser.parse(content)
fetch_rss == {NoneData, BozoFeed} \cup FeedPayloads

\* the request failed (network error, timeout, non-200 status, malformed
\* JSON: the client returned None) or the body could not be parsed as a feed
FetchFailed(data) == data.kind = "None" \/ data = BozoFeed

\* what the vendor's endpoint can list: the events in progress
VendorBodies == {<< >>, <<[id |-> "1"]>>, <<[id |-> "2"], [id |-> "1"]>>}

\* feedparser.parse of the vendor's JSON text: a parsed feed without
\* entries, bozo set; body names the text that was parsed
VendorFeeds ==
    {[kind |-> "dict", size |-> 2, entries |-> << >>, bozo |-> 1, body |-> b] :
        b \in VendorBodies}

\* `not data`
Falsy(data) == data.kind = "None" \/ data.size = 0


----------------------------------------------------------------------------
(* lib/status_checker.py: normalisation *)

\* StatusChecker.STATUS_EMOJI and get_emoji (glyphs written as their names)
get_emoji(indicator) ==
    CASE indicator \in {"none", "operational"} -> "check-mark"
      [] indicator \in {"minor", "degraded_performance"} -> "warning"
      [] indicator \in {"major", "partial_outage"} -> "cross-mark"
      [] indicator = "critical" -> "siren"
      [] indicator \in {"maintenance", "under_maintenance"} -> "wrench"
      [] indicator = "rss_new" -> "memo"
      [] OTHER -> "bar-chart"

\* the status_info of a check that has not normalised anything yet
NoInfo == [indicator |-> NoneVal, description |-> NoneVal, id |-> NoneVal, link |-> NoneVal]

\* get_status_info raises AttributeError on data.get when data is not a dict
GetStatusInfoRaises(data, service_type) ==
    service_type \in {"statuspage", "rss"} /\ data.kind # "dict"

\* StatusChecker.get_status_info; link stands for info['entry'].get('link')
get_status_info(data, service_type) ==
    IF service_type = "statuspage" THEN
        LET status == Get(data, "status", [none |-> TRUE])
            indicator == Get(status, "indicator", "none")
            description == Get(status, "description", "Unknown")
        IN  [indicator |-> indicator, description |-> description,
             id |-> indicator \o "|" \o description, link |-> NoneVal]
    ELSE IF service_type = "rss" THEN
        LET entries == Get(data, "entries", << >>)
        IN  IF entries = << >> THEN
                [indicator |-> "none", description |-> "No updates",
                 id |-> "empty", link |-> NoneVal]
            ELSE
                LET latest == entries[1]
                    entry_id == Or(Get(latest, "id", NoneVal),
                                   Or(Get(latest, "published", NoneVal),
                                      Get(latest, "link", NoneVal)))
                IN  [indicator |-> "rss_new",
                     description |-> Get(latest, "title", "new update"),
                     id |-> entry_id, link |-> Get(latest, "link", NoneVal)]
    ELSE [indicator |-> "unknown", description |-> "Unknown type",
          id |-> "unknown", link |-> NoneVal]

\* check_service picks the client call by service_type
FetchResults(service_type) ==
    CASE service_type = "statuspage" -> fetch_json
      [] service_type = "rss" -> fetch_rss
      [] OTHER -> {NoneData} \cup VendorFeeds

----------------------------------------------------------------------------
(* Results of check_service and their rendering (lib/formatters.py) *)

\* check_service has not returned
NoResult == [kind |-> "unset", changed |-> FALSE, type |-> NoneVal, info |-> NoInfo]

\* check_service returned None
NoneResult == [kind |-> "None", changed |-> FALSE, type |-> NoneVal, info |-> NoInfo]

\* the dict check_service returns
Result(changed, service_type, info) ==
    [kind |-> "dict", changed |-> changed, type |-> service_type, info |-> info]

\* format_status_change_message: emoji, name, header, description, entry link
format_status_change_message(service_name, result) ==
    [msg |-> "change",
     emoji |-> get_emoji(result.info.indicator),
     name |-> service_name,
     header |-> IF result.type = "statuspage" THEN "status change" ELSE "new update",
     detail |-> result.info.description,
     link |-> IF result.type = "rss" /\ TruthyStr(result.info.link)
              THEN result.info.link ELSE NoneVal]

\* format_test_result
format_test_result(service_name, result) ==
    IF result.kind = "None"
    THEN [msg |-> "could not fetch", name |-> service_name]
    ELSE format_status_change_message(service_name, result)

\* one block of format_status_list: "fetch failed" or emoji + description
StatusListEntry(service_name, result) ==
    IF result.kind = "None"
    THEN [name |-> service_name, line |-> "fetch failed", emoji |-> "cross-mark"]
    ELSE [name |-> service_name, line |-> result.info.description,
          emoji |-> get_emoji(result.info.indicator)]


----------------------------------------------------------------------------
(* lib/adapters.py: the adapters, called on their own *)

\* the most events a vendor payload lists
MaxEvents == 2

\* what an adapter returned: kind "None" is None, kind "raised" an exception
\* out of the adapter
NoOut == [kind |-> "None", indicator |-> NoneVal, description |-> NoneVal, id |-> NoneVal]

RaisedOut == [NoOut EXCEPT !.kind = "raised"]

Snapshot(indicator, description, id) ==
    [kind |-> "dict", indicator |-> indicator, description |-> description, id |-> id]

\* StatusPageAdapter.STATUS_TRANSLATIONS; the Chinese text for an English
\* description d is written "zh:" \o d
STATUS_TRANSLATIONS ==
    [d \in {"All Systems Operational", "Operational", "Major Service Outage",
            "Partial System Outage", "Minor Service Outage", "Degraded Performance",
            "Under Maintenance", "Maintenance", "Unknown"} |-> "zh:" \o d]

\* a status page of any language: its status object has or lacks each key
StatusObjects ==
    LET indicators == {"none", "minor"}
        descriptions == {"Operational", "zh:Operational", "Unknown", "Investigating"}
    IN  {[indicator |-> i, description |-> d] : i \in indicators, d \in descriptions}
        \cup {[indicator |-> i] : i \in indicators}
        \cup {[description |-> d] : d \in descriptions}

\* the JSON a status page can answer with
StatusPageInputs ==
    {[kind |-> "dict", size |-> 1, status |-> st] : st \in StatusObjects}
    \cup {[kind |-> "dict", size |-> 1, page |-> "p"]}

\* StatusPageAdapter.fetch_status after the fetch
StatusPageAdapter_fetch_status(data) ==
    IF Falsy(data) THEN NoOut
    ELSE IF data.kind # "dict" THEN RaisedOut
    ELSE LET status == Get(data, "status", [none |-> TRUE])
             indicator == Get(status, "indicator", "none")
             raw_description == Get(status, "description", "Unknown")
             description == Get(STATUS_TRANSLATIONS, raw_description, raw_description)
         IN  Snapshot(indicator, description, indicator \o "|" \o description)

\* the parsed feeds: no entry, or a first entry that has or lacks an id, a
\* published date, a link (feedparser gives "" for an empty element)
FeedEntries ==
    { [title |-> "t"] }
    \cup { [id |-> i, published |-> "p1", link |-> "http://l/1", title |-> "t"] : i \in {"e1", ""} }
    \cup { [published |-> q, link |-> "http://l/1", title |-> "t"] : q \in {"p1", ""} }
    \cup { [id |-> "e1", link |-> "http://l/1"], [link |-> "http://l/1", title |-> "t"] }

FeedInputs ==
    { [kind |-> "dict", size |-> 2, entries |-> << >>], [kind |-> "dict", size |-> 1, bozo |-> 1] }
    \cup { [kind |-> "dict", size |-> 2, entries |-> <<e>>] : e \in FeedEntries }
    \cup { [kind |-> "dict", size |-> 2, entries |-> <<e, [id |-> "e0", link |-> "http://l/0"]>>] :
             e \in FeedEntries }

\* an identifier taken from the link before the id and the date
EntryId_LinkFirst(latest) ==
    Or(Get(latest, "link", NoneVal),
       Or(Get(latest, "id", NoneVal), Get(latest, "published", NoneVal)))

\* latest.get('id') or latest.get('published') or latest.get('link')
EntryId(latest) ==
    Or(Get(latest, "id", NoneVal),
       Or(Get(latest, "published", NoneVal), Get(latest, "link", NoneVal)))

\* RSSAdapter.fetch_status after the fetch
RSSAdapter_fetch_status(data) ==
    IF Falsy(data) THEN NoOut
    ELSE LET entries == Get(data, "entries", << >>)
         IN  IF entries = << >> THEN Snapshot("none", "no updates yet", "empty")
             ELSE Snapshot("rss_new", Get(entries[1], "title", "new update"),
                           EntryId(entries[1]))

\* the ids events can have, in the order Python compares their strings
IdOrder == <<"1", "10", "2", "unknown">>

Rank(id) == CHOOSE i \in 1..Len(IdOrder) : IdOrder[i] = id

\* an event in progress: with an id, or without one
Events == {[id |-> IdOrder[i]] : i \in 1..3} \cup {[name |-> "n"]}

EventLists == UNION {[1..n -> Events] : n \in 0..MaxEvents}

\* the JSON the vendor can answer with: {"data": [...], ...}, or no "data"
AliyunInputs ==
    {[kind |-> "dict", size |-> 2, data |-> events] : events \in EventLists}
    \cup {[kind |-> "dict", size |-> 1, success |-> FALSE]}

\* the ids in the order of the payload
sorted_PayloadOrder(ids) == ids

\* sorted(...) of a list of strings
sorted(ids) == SortSeq(ids, LAMBDA a, b : Rank(a) < Rank(b))

RECURSIVE join(_, _)
\* sep.join(strs)
join(sep, strs) ==
    IF strs = << >> THEN ""
    ELSE IF Len(strs) = 1 THEN strs[1]
    ELSE strs[1] \o sep \o join(sep, Tail(strs))

\* AliyunAdapter.fetch_status after the fetch
AliyunAdapter_fetch_status(data) ==
    IF Falsy(data) THEN NoOut
    ELSE IF data.kind # "dict" THEN RaisedOut
    ELSE LET events == Get(data, "data", << >>)
         IN  IF events = << >> THEN Snapshot("none", "all systems operational", "empty_list")
             ELSE LET event_ids ==
                          join(",", sorted([i \in 1..Len(events) |->
                                               Get(events[i], "id", "unknown")]))
                  IN  Snapshot("minor", ToString(Len(events)) \o " active events",
                               "events_" \o event_ids)

\* get_status_info called on its own, as a snapshot
StatusInfo(data, service_type) ==
    IF GetStatusInfoRaises(data, service_type) THEN RaisedOut
    ELSE LET info == get_status_info(data, service_type)
         IN  Snapshot(info.indicator, info.description, info.id)

\* no adapter has been called
NoCall ==
    [adapter |-> NoneVal, data |-> NoneData, out |-> NoOut,
     prev_adapter |-> NoneVal, prev_data |-> NoneData, prev_out |-> NoOut]

\* the record of a call and of the call before it
Called(adapter, data, out) ==
    [adapter |-> adapter, data |-> data, out |-> out,
     prev_adapter |-> adapter_call.adapter, prev_data |-> adapter_call.data,
     prev_out |-> adapter_call.out]

\* await StatusPageAdapter().fetch_status(client, name, url)
CallStatusPageAdapter ==
    /\ \E data \in {NoneData, EmptyDict, [kind |-> "list", size |-> 1]} \cup StatusPageInputs :
          adapter_call' = Called("StatusPageAdapter", data, StatusPageAdapter_fetch_status(data))
    /\ UNCHANGED <<services, notify_targets, check_interval, error_backoff, loop_pc, kv,
                   task, cmd, session, failures, terminated>>

\* await RSSAdapter().fetch_status(client, name, url)
CallRSSAdapter ==
    /\ \E data \in {NoneData} \cup FeedInputs :
          adapter_call' = Called("RSSAdapter", data, RSSAdapter_fetch_status(data))
    /\ UNCHANGED <<services, notify_targets, check_interval, error_backoff, loop_pc, kv,
                   task, cmd, session, failures, terminated>>

\* await AliyunAdapter().fetch_status(client, name, url)
CallAliyunAdapter ==
    /\ \E data \in {NoneData, EmptyDict} \cup AliyunInputs :
          adapter_call' = Called("AliyunAdapter", data, AliyunAdapter_fetch_status(data))
    /\ UNCHANGED <<services, notify_targets, check_interval, error_backoff, loop_pc, kv,
                   task, cmd, session, failures, terminated>>

\* StatusChecker.get_status_info(data, service_type) on fetched data
CallGetStatusInfo ==
    /\ \E service_type \in {"statuspage", "rss"} :
          \E data \in IF service_type = "statuspage"
                      THEN {[kind |-> "list", size |-> 1]} \cup StatusPageInputs
                      ELSE FeedInputs :
             adapter_call' = Called("get_status_info/" \o service_type, data,
                                    StatusInfo(data, service_type))
    /\ UNCHANGED <<services, notify_targets, check_interval, error_backoff, loop_pc, kv,
                   task, cmd, session, failures, terminated>>

----------------------------------------------------------------------------
(* Coroutines: one task record per call of check_service.  The first       *)
(* component of a task's name is its caller: "auto" is _check_and_notify   *)
(* of the poll loop, "status" is handle_servicestatus, "test" is           *)
(* handle_servicetest and "call" is a direct call of check_service.        *)

Callers == {"auto", "status", "test", "call"}

Procs == Callers \X Catalog

\* a task that is not running.  Beside the locals of the coroutine the
\* record keeps what the call has done so far: fetches (requests made),
\* fetch_failed (the fetch failed), read and wrote (get_kv_data and
\* put_kv_data were called), sends (the recipients send_message was called
\* for, in order) and failed_at (the place in sends of the first call that
\* raised, 0 when none did); body is what the vendor's endpoint listed
IdleTask ==
    [pc |-> "idle", ignore_cache |-> FALSE, info |-> NoInfo, last_id |-> NoneVal,
     result |-> NoResult, exc |-> NoneVal, sends |-> << >>, wrote |-> FALSE,
     fetches |-> 0, fetch_failed |-> FALSE, read |-> FALSE, failed_at |-> 0,
     body |-> << >>]

\* a task at its first await
NewTask(pc, ignore_cache) ==
    [IdleTask EXCEPT !.pc = pc, !.ignore_cache = ignore_cache]

\* the parameters of check_service(self, service_name, api_url, service_type, ignore_cache)
CheckServiceParams == {"service_name", "api_url", "service_type", "ignore_cache"}

\* a call binds when every keyword it passes is a parameter; otherwise the
\* call itself raises TypeError, before any coroutine is created
Binds(kwargs) == kwargs \subseteq CheckServiceParams

\* handle_servicestatus calling check_service without update_db
StatusKwargs_NoUpdateDb == {"ignore_cache"}

\* the keywords handle_servicestatus passes to check_service
StatusKwargs == {"ignore_cache", "update_db"}

\* handle_servicetest calling check_service without update_db
TestKwargs_NoUpdateDb == {"ignore_cache"}

\* the keywords handle_servicetest passes to check_service
TestKwargs == {"ignore_cache", "update_db"}

\* _check_and_notify without its try/except
TaskOnException_Uncaught(caller) == "propagated"

\* where an exception raised inside a task's check ends up: the try/except
\* of _check_and_notify, gather(return_exceptions=True) of handle_servicestatus,
\* the try/except of handle_servicetest, or the direct caller
TaskOnException(caller) ==
    CASE caller = "auto" -> "caught"
      [] caller = "status" -> "returned"
      [] caller = "test" -> "caught"
      [] OTHER -> "propagated"

\* the task after an exception was raised in it
Raise(p, t) ==
    [t EXCEPT !.pc = "done", !.exc = TaskOnException(p[1]),
              !.info = NoInfo, !.last_id = NoneVal, !.result = NoResult]

\* `if result and result.get('changed')` of _check_and_notify, and the
\* `if not self.notify_targets: return` of _notify_status_change
WillNotify(caller, result) ==
    /\ caller = "auto"
    /\ result.kind = "dict"
    /\ result.changed
    /\ notify_targets # << >>

\* the task after check_service returned `result`
Return(p, t, result) ==
    [t EXCEPT !.pc = IF WillNotify(p[1], result) THEN "notify" ELSE "done",
              !.result = result, !.info = NoInfo]

\* a comparison that ignores the stored identity
StatusChanged_OnlyForced(ignore_cache, current_id, last_id) == ignore_cache

\* a comparison that always reports a change
StatusChanged_Always(ignore_cache, current_id, last_id) == TRUE

\* a comparison that ignores ignore_cache
StatusChanged_NoForce(ignore_cache, current_id, last_id) == current_id # last_id

\* status_changed = ignore_cache or (current_id != last_id)
StatusChanged(ignore_cache, current_id, last_id) ==
    ignore_cache \/ current_id # last_id

\* a first run that is reported like any other comparison
ChangedAfterPut_NoBaseline(last_id, status_changed) == status_changed

\* 'changed' of the dict returned after a write: False on the first run
\* (last_id is None), status_changed otherwise
ChangedAfterPut(last_id, status_changed) ==
    IF last_id = NoneVal THEN FALSE ELSE status_changed

\* await asyncio.sleep(random.uniform(0, 5)) of _check_and_notify
JitterDelay(p) ==
    /\ task[p].pc = "delay"
    /\ task' = [task EXCEPT ![p].pc = "fetch"]
    /\ UNCHANGED <<services, notify_targets, check_interval, adapter_call, terminated, session, failures,
                 error_backoff, loop_pc, kv, cmd>>

\* check_service up to its first store access: the fetch, `if not data`,
\* get_status_info
Fetch(p) ==
    /\ task[p].pc = "fetch"
    /\ \E data \in FetchResults(ServiceType(p[2])) :
          LET t == [task[p] EXCEPT !.fetches = @ + 1,
                                   !.fetch_failed = FetchFailed(data),
                                   !.body = Get(data, "body", << >>)]
          IN  task' = [task EXCEPT ![p] =
                         IF Falsy(data) THEN Return(p, t, NoneResult)
                         ELSE IF GetStatusInfoRaises(data, ServiceType(p[2])) THEN Raise(p, t)
                         ELSE [t EXCEPT !.pc = "get_kv",
                                        !.info = get_status_info(data, ServiceType(p[2]))]]
    /\ session' = "open"
    /\ UNCHANGED <<services, notify_targets, check_interval, adapter_call, terminated, failures,
                 error_backoff, loop_pc, kv, cmd>>

\* last_id = await self.star.get_kv_data(kv_key, None), then the baseline
\* test and the comparison; the store may raise
KvGet(p) ==
    /\ task[p].pc = "get_kv"
    /\ \E store_ok \in BOOLEAN :
          LET t == [task[p] EXCEPT !.read = TRUE]
              last_id == kv[KvKey(p[2])]
          IN  task' = [task EXCEPT ![p] =
                         IF ~store_ok THEN Raise(p, t)
                         ELSE IF last_id = NoneVal
                                 \/ StatusChanged(t.ignore_cache, t.info.id, last_id)
                              THEN [t EXCEPT !.pc = "put_kv", !.last_id = last_id]
                              ELSE Return(p, [t EXCEPT !.last_id = last_id],
                                          Result(FALSE, ServiceType(p[2]), t.info))]
    /\ UNCHANGED <<services, notify_targets, check_interval, adapter_call, terminated, session, failures,
                 error_backoff, loop_pc, kv, cmd>>

\* a write that stores the first identity and none after it
PutValue_BaselineOnly(current_id, last_id) ==
    IF last_id = NoneVal THEN current_id ELSE last_id

\* the value put_kv_data is given, in both branches: current_id
PutValue(current_id, last_id) == current_id

\* await self.star.put_kv_data(kv_key, current_id) of the baseline branch
\* and of the changed branch, then the return; the store may raise
KvPut(p) ==
    /\ task[p].pc = "put_kv"
    /\ \E store_ok \in BOOLEAN :
          IF ~store_ok
          THEN /\ task' = [task EXCEPT ![p] = Raise(p, @)]
               /\ kv' = kv
          ELSE /\ kv' = [kv EXCEPT ![KvKey(p[2])] =
                                 PutValue(task[p].info.id, task[p].last_id)]
               /\ task' = [task EXCEPT ![p] =
                             Return(p, [@ EXCEPT !.wrote = TRUE],
                                    Result(ChangedAfterPut(@.last_id,
                                               StatusChanged(@.ignore_cache, @.info.id,
                                                             @.last_id)),
                                           ServiceType(p[2]), @.info))]
    /\ UNCHANGED <<services, notify_targets, check_interval, adapter_call, terminated, session, failures,
                 error_backoff, loop_pc, cmd>>

\* a notifier whose for loop has no try/except: the first send_message
\* that raises ends it
NotifyNextPc_StopsOnFailure(delivered, sent) ==
    IF ~delivered \/ sent = Len(notify_targets) THEN "done" ELSE "notify"

\* where the for loop of _notify_status_change is after a round: the
\* try/except is inside the loop, so a send_message that raised is logged
\* and the loop goes to the next target until the list is exhausted
NotifyNextPc(delivered, sent) ==
    IF sent = Len(notify_targets) THEN "done" ELSE "notify"

\* one round of the `for target in self.notify_targets` loop of
\* _notify_status_change: send_message succeeds or raises
Notify(p) ==
    /\ task[p].pc = "notify"
    /\ \E delivered \in BOOLEAN :
          LET target == notify_targets[Len(task[p].sends) + 1]
              sends == Append(task[p].sends, target)
          IN  task' = [task EXCEPT ![p].sends = sends,
                                   ![p].failed_at = IF ~delivered /\ @ = 0
                                                    THEN Len(sends) ELSE @,
                                   ![p].pc = NotifyNextPc(delivered, Len(sends))]
    /\ UNCHANGED <<services, notify_targets, check_interval, adapter_call, terminated, session, failures,
                 error_backoff, loop_pc, kv, cmd>>


----------------------------------------------------------------------------
(* main.py: _monitor_loop *)

\* values the configuration can give for check_interval
CheckIntervals == { [type |-> "int", value |-> 60], [type |-> "NoneType", value |-> 0] }

\* asyncio.sleep(delay) raises TypeError when delay is not a number
SleepRaises(delay) == delay.type # "int"

\* the tasks of the current cycle, one per enabled service
AutoTasks == {"auto"} \X services

\* whether the statement the loop is at raises into `except Exception`:
\* gather re-raises what a task let propagate, sleep rejects a bad interval
RaisesAt(pc) ==
    IF pc = "gather" THEN \E p \in AutoTasks : task[p].exc = "propagated"
    ELSE SleepRaises(check_interval)

\* await asyncio.sleep(5) before the first cycle
InitialSleep ==
    /\ loop_pc = "startup"
    /\ loop_pc' = "cycle"
    /\ UNCHANGED <<services, notify_targets, check_interval, adapter_call, terminated, session, failures,
                 error_backoff, kv, task, cmd>>

\* tasks = [_check_and_notify(name, s) ...]; `if tasks:` gather, else the
\* cycle is over at once
StartCycle ==
    /\ loop_pc = "cycle"
    /\ IF services = {}
       THEN /\ error_backoff' = 5
            /\ loop_pc' = "sleep"
            /\ task' = task
       ELSE /\ task' = [p \in Procs |-> IF p \in AutoTasks
                                        THEN NewTask("delay", FALSE) ELSE task[p]]
            /\ loop_pc' = "gather"
            /\ error_backoff' = error_backoff
    /\ UNCHANGED <<services, notify_targets, check_interval, adapter_call, terminated, session, failures,
                 kv, cmd>>

\* a wait that ends with the first task that is done
GatherDone_First == \E p \in AutoTasks : task[p].pc = "done"

\* asyncio.gather(*tasks) is done when every task of the cycle is done
GatherDone == \A p \in AutoTasks : task[p].pc = "done"

\* await asyncio.gather(*tasks) returns; the tasks that are done are
\* dropped; then error_backoff = 5
JoinCycle ==
    /\ loop_pc = "gather"
    /\ GatherDone
    /\ ~RaisesAt("gather")
    /\ task' = [p \in Procs |-> IF p \in AutoTasks /\ task[p].pc = "done"
                                 THEN IdleTask ELSE task[p]]
    /\ error_backoff' = 5
    /\ loop_pc' = "sleep"
    /\ UNCHANGED <<services, notify_targets, check_interval, adapter_call, terminated, session, failures,
                 kv, cmd>>

\* await asyncio.sleep(self.check_interval)
IntervalSleep ==
    /\ loop_pc = "sleep"
    /\ ~RaisesAt("sleep")
    /\ loop_pc' = "cycle"
    /\ failures' = 0
    /\ UNCHANGED <<services, notify_targets, check_interval, adapter_call, terminated, session,
                 error_backoff, kv, task, cmd>>

\* a loop without its try/except: the exception ends the task
LoopOnException_Ends(pc) == "ended"

\* where an Exception raised in the try block of the loop ends up: in
\* `except Exception`, which logs it and sleeps error_backoff
LoopOnException(pc) == "backoff"

\* except Exception of the loop: an exception out of gather or out of sleep
LoopFailure ==
    /\ loop_pc \in {"gather", "sleep"}
    /\ RaisesAt(loop_pc)
    /\ loop_pc' = LoopOnException(loop_pc)
    /\ failures' = Min(failures + 1, MaxFailures)
    /\ UNCHANGED <<services, notify_targets, check_interval, adapter_call, terminated, session,
                 error_backoff, kv, task, cmd>>

\* await asyncio.sleep(error_backoff); error_backoff = min(error_backoff * 2, 60)
BackoffSleep ==
    /\ loop_pc = "backoff"
    /\ error_backoff' = Min(error_backoff * 2, 60)
    /\ loop_pc' = "cycle"
    /\ UNCHANGED <<services, notify_targets, check_interval, adapter_call, terminated, session, failures,
                 kv, task, cmd>>

\* a loop whose `except Exception` caught the cancellation, as it did when
\* CancelledError was an Exception
LoopOnCancel_Caught(pc) == IF pc \in {"gather", "sleep"} THEN "backoff" ELSE "cancelled"

\* where the CancelledError thrown into _monitor_loop at the await it is
\* suspended in ends up: it is no Exception, so `except Exception` lets it
\* through and the task ends
LoopOnCancel(pc) == "cancelled"

\* what cancelling a task of gather does to it: nothing when it is over,
\* else CancelledError at its await, which no `except Exception` catches
CancelTask(t) ==
    IF t.pc \in {"idle", "done"} THEN t ELSE [IdleTask EXCEPT !.pc = "cancelled"]

\* terminate(): monitoring_task.cancel(), which cancels the gather the task
\* awaits and with it every task of the cycle, then status_checker.close()
Terminate ==
    /\ ~terminated
    /\ terminated' = TRUE
    /\ loop_pc' = LoopOnCancel(loop_pc)
    /\ task' = [p \in Procs |-> IF p \in AutoTasks THEN CancelTask(task[p]) ELSE task[p]]
    /\ session' = IF session = "open" THEN "closed" ELSE session
    /\ UNCHANGED <<services, notify_targets, check_interval, adapter_call, failures,
                   error_backoff, kv, cmd>>

----------------------------------------------------------------------------
(* lib/commands.py *)

\* no command has run yet
NoCmd == [pc |-> "idle", command |-> NoneVal, name |-> NoneVal, out |-> << >>, raised |-> NoneVal]

NoServicesMsg == [msg |-> "no services configured"]

NotConfiguredMsg(service_name) ==
    [msg |-> "not configured", name |-> service_name, available |-> services]

TestingMsg(service_name) == [msg |-> "testing", name |-> service_name]

TestFailedMsg(e) == [msg |-> "test failed", error |-> e]

\* format_status_list over the results gather returned; a result that is an
\* exception was skipped by the collecting loop
format_status_list(results) ==
    IF DOMAIN results = {} THEN NoServicesMsg
    ELSE [msg |-> "status list",
          entries |-> [s \in DOMAIN results |-> StatusListEntry(s, results[s])]]

\* a lookup in the whole catalogue instead of the enabled services
Configured_InCatalog(service_name) == service_name \in Catalog

\* service = self.services.get(service_name); `if not service` is its negation
Configured(service_name) == service_name \in services

\* the tasks handle_servicestatus gathers
StatusTasks == {"status"} \X services

\* handle_servicestatus: the empty-services reply; else one call of
\* check_service per service (a call that does not bind raises out of the
\* handler), gather(return_exceptions=True), and the formatted reply
HandleServiceStatus ==
    /\ cmd.pc \in {"idle", "status_gather"}
    /\ IF cmd.pc = "idle" THEN
          IF services = {} THEN
             /\ cmd' = [NoCmd EXCEPT !.command = "servicestatus", !.out = <<NoServicesMsg>>]
             /\ task' = task
          ELSE IF ~Binds(StatusKwargs) THEN
             /\ cmd' = [NoCmd EXCEPT !.command = "servicestatus", !.raised = "TypeError"]
             /\ task' = task
          ELSE
             /\ cmd' = [NoCmd EXCEPT !.command = "servicestatus", !.pc = "status_gather"]
             /\ task' = [p \in Procs |-> IF p \in StatusTasks
                                         THEN NewTask("fetch", FALSE) ELSE task[p]]
       ELSE
          /\ \A p \in StatusTasks : task[p].pc = "done"
          /\ LET ok == {s \in services : task[<<"status", s>>].exc = NoneVal}
             IN  cmd' = [cmd EXCEPT !.pc = "idle",
                           !.out = <<format_status_list(
                                       [s \in ok |-> task[<<"status", s>>].result])>>]
          /\ task' = [p \in Procs |-> IF p \in StatusTasks THEN IdleTask ELSE task[p]]
    /\ UNCHANGED <<services, notify_targets, check_interval, adapter_call, terminated, session, failures,
                 error_backoff, loop_pc, kv>>

\* handle_servicetest up to its first yield: the not-configured reply, or
\* the "testing ..." message
HandleServiceTest(service_name) ==
    /\ cmd.pc = "idle"
    /\ cmd' = IF ~Configured(service_name)
              THEN [NoCmd EXCEPT !.command = "servicetest", !.name = service_name,
                                 !.out = <<NotConfiguredMsg(service_name)>>]
              ELSE [NoCmd EXCEPT !.command = "servicetest", !.name = service_name,
                                 !.out = <<TestingMsg(service_name)>>,
                                 !.pc = "test_yielded"]
    /\ UNCHANGED <<services, notify_targets, check_interval, adapter_call, terminated, session, failures,
                 error_backoff, loop_pc, kv, task>>

\* handle_servicetest after the yield: the try block calls check_service
\* with ignore_cache=True (a call that does not bind raises TypeError into
\* `except Exception`), awaits it and replies
HandleServiceTestResume ==
    /\ cmd.pc \in {"test_yielded", "test_await"}
    /\ LET p == <<"test", cmd.name>>
       IN  IF cmd.pc = "test_yielded" THEN
              IF ~Binds(TestKwargs) THEN
                 /\ cmd' = [cmd EXCEPT !.pc = "idle",
                                       !.out = Append(@, TestFailedMsg("TypeError"))]
                 /\ task' = task
              ELSE
                 /\ cmd' = [cmd EXCEPT !.pc = "test_await"]
                 /\ task' = [task EXCEPT ![p] = NewTask("fetch", TRUE)]
           ELSE
              /\ task[p].pc = "done"
              /\ cmd' = [cmd EXCEPT !.pc = "idle",
                           !.out = Append(@, IF task[p].exc # NoneVal
                                             THEN TestFailedMsg("Exception")
                                             ELSE format_test_result(cmd.name, task[p].result))]
              /\ task' = [task EXCEPT ![p] = IdleTask]
    /\ UNCHANGED <<services, notify_targets, check_interval, adapter_call, terminated, session, failures,
                 error_backoff, loop_pc, kv>>

----------------------------------------------------------------------------
(* The plugin *)

\* notify_targets as configured: a list of distinct recipients
TargetLists == { [i \in 1..n |-> i] : n \in 0..MaxTargets }

\* the configurations the loop is started with: any enabled set and any
\* recipient list with a numeric check_interval; with a check_interval
\* that is no number, where every cycle ends in the loop's failure
\* handling, no recipient or one
Configs ==
    { c \in [services : EnabledSets, notify_targets : TargetLists,
             check_interval : CheckIntervals] :
        SleepRaises(c.check_interval) => Len(c.notify_targets) <= 1 }

\* the state after initialize(): configuration loaded, the monitoring task
\* created, nothing stored yet
Init ==
    /\ \E c \in Configs :
          /\ services = c.services
          /\ notify_targets = c.notify_targets
          /\ check_interval = c.check_interval
    /\ error_backoff = 5
    /\ loop_pc = "startup"
    /\ kv = [k \in KvKeys |-> NoneVal]
    /\ task = [p \in Procs |-> IdleTask]
    /\ cmd = NoCmd
    /\ session = "none"
    /\ failures = 0
    /\ terminated = FALSE
    /\ adapter_call = NoCall

Next ==
    \/ InitialSleep
    \/ StartCycle
    \/ JoinCycle
    \/ IntervalSleep
    \/ LoopFailure
    \/ BackoffSleep
    \/ Terminate
    \/ \E p \in Procs : JitterDelay(p)
    \/ \E p \in Procs : Fetch(p)
    \/ \E p \in Procs : KvGet(p)
    \/ \E p \in Procs : KvPut(p)
    \/ \E p \in Procs : Notify(p)
    \/ HandleServiceStatus
    \/ \E n \in Names : HandleServiceTest(n)
    \/ HandleServiceTestResume

Spec == Init /\ [][Next]_vars

\* a step of the _monitor_loop coroutine
LoopStep ==
    \/ InitialSleep
    \/ StartCycle
    \/ JoinCycle
    \/ IntervalSleep
    \/ LoopFailure
    \/ BackoffSleep

\* a step of the coroutine of task p
TaskStep(p) ==
    \/ JitterDelay(p)
    \/ Fetch(p)
    \/ KvGet(p)
    \/ KvPut(p)
    \/ Notify(p)

\* the monitoring task from initialize() to terminate(), no command sent:
\* the command handlers do not touch the loop or its tasks
NextLoop ==
    \/ LoopStep
    \/ \E p \in {"auto"} \X Catalog : TaskStep(p)
    \/ Terminate

\* the event loop runs every coroutine that can go on: a sleep ends, a
\* fetch ends within its 10 second timeout, a call of the store or of the
\* transport returns or raises
SpecFair ==
    /\ Init
    /\ [][NextLoop]_vars
    /\ WF_vars(LoopStep)
    /\ \A p \in {"auto"} \X Catalog : WF_vars(TaskStep(p))


----------------------------------------------------------------------------
(* check_service called directly, on a store in any state a run can leave  *)
(* it in: the specification for statements about check_service alone.      *)

\* the identities check_service can have stored for a service
StoredIds(s) ==
    {NoneVal} \cup { get_status_info(d, ServiceType(s)).id :
                       d \in {x \in FetchResults(ServiceType(s)) :
                                ~Falsy(x) /\ ~GetStatusInfoRaises(x, ServiceType(s))} }

\* a caller awaits check_service(service_name, api_url, type, ignore_cache)
CallCheckService(s, ignore_cache) ==
    /\ task[<<"call", s>>].pc \in {"idle", "done"}
    /\ task' = [task EXCEPT ![<<"call", s>>] = NewTask("fetch", ignore_cache)]
    /\ UNCHANGED <<services, notify_targets, check_interval, adapter_call, terminated, session, failures,
                 error_backoff, loop_pc, kv, cmd>>

CallTasks == {"call"} \X Catalog

InitUnit ==
    /\ services = {"svcA", "svcB"}
    /\ notify_targets = << >>
    /\ check_interval = [type |-> "int", value |-> 60]
    /\ error_backoff = 5
    /\ loop_pc = "startup"
    /\ kv \in { f \in [KvKeys -> UNION {StoredIds(s) : s \in Catalog}] :
                  \A s \in Catalog : f[KvKey(s)] \in IF s \in {"svcA", "svcB"}
                                                       THEN StoredIds(s) ELSE {NoneVal} }
    /\ task = [p \in Procs |-> IdleTask]
    /\ cmd = NoCmd
    /\ session = "none"
    /\ failures = 0
    /\ terminated = FALSE
    /\ adapter_call = NoCall

NextUnit ==
    \/ \E s \in services, ignore_cache \in BOOLEAN : CallCheckService(s, ignore_cache)
    \/ \E p \in CallTasks : Fetch(p)
    \/ \E p \in CallTasks : KvGet(p)
    \/ \E p \in CallTasks : KvPut(p)

SpecUnit == InitUnit /\ [][NextUnit]_vars

----------------------------------------------------------------------------
(* The normalisers called on their own, one call after another *)

InitAdapter ==
    /\ services = {}
    /\ notify_targets = << >>
    /\ check_interval = [type |-> "int", value |-> 60]
    /\ error_backoff = 5
    /\ loop_pc = "startup"
    /\ kv = [k \in KvKeys |-> NoneVal]
    /\ task = [p \in Procs |-> IdleTask]
    /\ cmd = NoCmd
    /\ session = "none"
    /\ failures = 0
    /\ terminated = FALSE
    /\ adapter_call = NoCall

NextAdapter ==
    \/ CallStatusPageAdapter
    \/ CallRSSAdapter
    \/ CallAliyunAdapter
    \/ CallGetStatusInfo

SpecAdapter == InitAdapter /\ [][NextAdapter]_vars

----------------------------------------------------------------------------
(* Properties *)

\* every task the poll loop can create
AllAutoTasks == {"auto"} \X Catalog

\* the task's check_service returned a result dict
Completed(p) == task[p].result.kind = "dict"

\* C1: an automatic check that finds no persisted identity and runs to its
\* return reports changed = false, leaves the snapshot's identity in the
\* store (indicator|description for a status-page service) and sends no
\* notification.
C1_BaselineObservation ==
    \A p \in AllAutoTasks :
        (Completed(p) /\ task[p].last_id = NoneVal) =>
            /\ ~task[p].result.changed
            /\ kv[KvKey(p[2])] = task[p].result.info.id
            /\ (ServiceType(p[2]) = "statuspage" =>
                    kv[KvKey(p[2])] = task[p].result.info.indicator \o "|"
                                        \o task[p].result.info.description)
            /\ task[p].wrote
            /\ task[p].pc = "done"
            /\ task[p].sends = << >>

\* a baseline check of the status-page service has returned, on a major
\* outage, with recipients configured
C1_Witness ==
    /\ notify_targets # << >>
    /\ Completed(<<"auto", "svcA">>)
    /\ task[<<"auto", "svcA">>].last_id = NoneVal
    /\ task[<<"auto", "svcA">>].result.info.indicator = "major"
    /\ kv[KvKey("svcA")] = "major|Major Service Outage"

\* C2: an automatic check that finds a persisted identity different from
\* the fetched one reports changed = true and overwrites the store with the
\* new identity, and when it is done it has attempted exactly one delivery
\* to each configured recipient, in order.
C2_RealChange ==
    \A p \in AllAutoTasks :
        (Completed(p) /\ task[p].last_id # NoneVal
                      /\ task[p].last_id # task[p].result.info.id) =>
            /\ task[p].result.changed
            /\ task[p].wrote
            /\ kv[KvKey(p[2])] = task[p].result.info.id
            /\ Len(task[p].sends) <= Len(notify_targets)
            /\ \A i \in 1..Len(task[p].sends) : task[p].sends[i] = notify_targets[i]
            /\ (task[p].pc = "done" => task[p].sends = notify_targets)

\* the scenario of the specification: stored none|All Systems Operational,
\* fetched major|Major Service Outage, every recipient notified
C2_Witness ==
    /\ Len(notify_targets) = MaxTargets
    /\ task[<<"auto", "svcA">>].pc = "done"
    /\ Completed(<<"auto", "svcA">>)
    /\ task[<<"auto", "svcA">>].last_id = "none|All Systems Operational"
    /\ kv[KvKey("svcA")] = "major|Major Service Outage"
    /\ task[<<"auto", "svcA">>].sends = notify_targets

\* C3: an automatic check that finds a persisted identity equal to the
\* fetched one reports changed = false, writes nothing to the store and
\* attempts no delivery.
C3_NoChange ==
    \A p \in AllAutoTasks :
        (Completed(p) /\ task[p].last_id # NoneVal
                      /\ task[p].last_id = task[p].result.info.id) =>
            /\ ~task[p].result.changed
            /\ ~task[p].wrote
            /\ kv[KvKey(p[2])] = task[p].last_id
            /\ task[p].pc = "done"
            /\ task[p].sends = << >>

\* an unchanged check of each service has returned, with recipients configured
C3_Witness ==
    /\ notify_targets # << >>
    /\ \A p \in {"auto"} \X {"svcA", "svcB"} :
          /\ Completed(p)
          /\ task[p].last_id # NoneVal
          /\ task[p].last_id = task[p].result.info.id

\* a step of handle_servicestatus or of a check it started
StatusQueryStep ==
    \/ HandleServiceStatus
    \/ \E p \in {"status"} \X Catalog : Fetch(p) \/ KvGet(p) \/ KvPut(p)

\* C4: no step of the servicestatus command, nor of a check it started,
\* changes the persisted identity of any service.
C4_StatusQueryLeavesStore == [][StatusQueryStep => kv' = kv]_vars

\* the command has run over a store with an absent and a present identity
C4_Witness ==
    /\ cmd.command = "servicestatus"
    /\ cmd.pc = "idle"
    /\ services = {"svcA", "svcB"}
    /\ \E s \in Catalog : kv[KvKey(s)] = NoneVal
    /\ \E s \in Catalog : kv[KvKey(s)] # NoneVal

\* a step of handle_servicetest or of the check it started
TestQueryStep ==
    \/ \E n \in Names : HandleServiceTest(n)
    \/ HandleServiceTestResume
    \/ \E p \in {"test"} \X Catalog : Fetch(p) \/ KvGet(p) \/ KvPut(p)

\* everything the next automatic check of a service depends on, besides
\* what it fetches
AutoView ==
    <<kv, services, notify_targets, loop_pc, error_backoff,
      [p \in AllAutoTasks |-> task[p]]>>

\* C5: no step of the servicetest command, nor of the check it started,
\* writes the store or changes anything else the automatic checks read, so
\* the automatic checks go on as if the command had not run.
C5_TestQueryLeavesStore == [][TestQueryStep => UNCHANGED AutoView]_vars

\* the test command has run to its last reply for a service whose identity
\* is stored
C5_Witness ==
    /\ cmd.command = "servicetest"
    /\ cmd.pc = "idle"
    /\ cmd.name \in services
    /\ Len(cmd.out) = 2
    /\ kv[KvKey(cmd.name)] # NoneVal

\* C6 as stated: check_service called with ignore_cache = true returns
\* changed = true whenever it returns a result.
C6_ForcedAlways ==
    \A p \in CallTasks :
        (Completed(p) /\ task[p].ignore_cache) => task[p].result.changed

\* C6 as amended: check_service called with ignore_cache = true for a
\* service that has a persisted identity returns changed = true, also when
\* the fetched identity equals the persisted one.
C6_ForcedChange ==
    \A p \in CallTasks :
        (Completed(p) /\ task[p].ignore_cache /\ task[p].last_id # NoneVal) =>
            task[p].result.changed

\* a forced check has returned with the fetched identity equal to the stored one
C6_Witness ==
    \E p \in CallTasks :
        /\ Completed(p)
        /\ task[p].ignore_cache
        /\ task[p].last_id # NoneVal
        /\ task[p].last_id = task[p].result.info.id
        /\ task[p].result.changed

\* C7: a servicestatus command over a non-empty set of services does not
\* fail as a whole: it ends with one reply, the status list, which has an
\* entry for every enabled service.
C7_StatusListReplies ==
    (cmd.command = "servicestatus" /\ cmd.pc = "idle" /\ services # {}) =>
        /\ cmd.raised = NoneVal
        /\ Len(cmd.out) = 1
        /\ cmd.out[1].msg = "status list"
        /\ DOMAIN cmd.out[1].entries = services

\* C8: a servicetest command for an enabled service ends with the rendered
\* report of the fetched snapshot, or with the could-not-fetch message.
C8_TestReplies ==
    (cmd.command = "servicetest" /\ cmd.pc = "idle" /\ cmd.name \in services) =>
        /\ cmd.raised = NoneVal
        /\ Len(cmd.out) = 2
        /\ cmd.out[2].msg \in {"change", "could not fetch"}

\* C9: a servicetest command for a name that is not an enabled service ends
\* at once with the not-configured reply and without an exception, and no
\* check is ever started for such a name.
C9_NotConfigured ==
    /\ (cmd.command = "servicetest" /\ cmd.name \notin services) =>
          /\ cmd.pc = "idle"
          /\ cmd.raised = NoneVal
          /\ cmd.out = <<NotConfiguredMsg(cmd.name)>>
    /\ \A s \in Catalog \ services : task[<<"test", s>>] = IdleTask

\* the command was given the name of a catalogue service that is not enabled
C9_Witness ==
    /\ cmd.command = "servicetest"
    /\ cmd.name \in Catalog \ services
    /\ services # {}
    /\ cmd.out = <<NotConfiguredMsg(cmd.name)>>

\* C10: no exception of a service's check leaves its task, and gather ends
\* only by returning, with every task of the cycle done, unless terminate()
\* cancels it; the loop then resets error_backoff and goes to its interval
\* sleep, never to the backoff.
C10_PerServiceIsolation ==
    /\ [](\A p \in AllAutoTasks : task[p].exc # "propagated")
    /\ [][(loop_pc = "gather" /\ loop_pc' # "gather" /\ ~terminated') =>
             /\ \A p \in AutoTasks : task[p].pc = "done"
             /\ loop_pc' = "sleep"
             /\ error_backoff' = 5]_vars

\* in one cycle the check of one service failed with an exception and the
\* check of the other one returned a change and notified it
C10_Witness ==
    /\ loop_pc = "gather"
    /\ task[<<"auto", "svcA">>].pc = "done"
    /\ task[<<"auto", "svcA">>].exc = "caught"
    /\ task[<<"auto", "svcB">>].pc = "done"
    /\ Completed(<<"auto", "svcB">>)
    /\ task[<<"auto", "svcB">>].result.changed
    /\ task[<<"auto", "svcB">>].sends = notify_targets
    /\ notify_targets # << >>


\* min(5 * 2^(k-1), 60)
BackoffDelay(k) == Min(5 * 2^(k - 1), 60)

\* C11: the delay slept after the k-th failed iteration in a row is
\* min(5 * 2^(k-1), 60) (5, 10, 20, 40, 60, 60, ...), and error_backoff is
\* always one of 5, 10, 20, 40, 60.  failures counts the failed iterations
\* in a row up to MaxFailures, where it stands for "MaxFailures or more".
C11_BackoffSequence ==
    /\ error_backoff \in {5, 10, 20, 40, 60}
    /\ (loop_pc = "backoff" /\ failures < MaxFailures) =>
          error_backoff = BackoffDelay(failures)
    /\ (loop_pc = "backoff" /\ failures = MaxFailures) =>
          error_backoff >= BackoffDelay(MaxFailures)


\* C12: unless terminate() cancels it, the loop goes from a loop-level
\* failure, and from a cycle whatever its checks did, to the start of
\* another cycle, and starts it.
C12_LoopGoesOn ==
    /\ [](loop_pc \in {"gather", "sleep", "backoff"} => <>(loop_pc = "cycle" \/ terminated))
    /\ [](loop_pc = "cycle" => <>(loop_pc \in {"gather", "sleep"} \/ terminated))

\* a cycle is running after a loop-level failure, and a check of it failed
C12_Witness ==
    /\ loop_pc = "gather"
    /\ failures >= 1
    /\ ~terminated
    /\ \E p \in AutoTasks : task[p].pc = "done" /\ task[p].exc = "caught"

\* what the monitoring task and its checks do and hold
LoopView == <<loop_pc, error_backoff, kv, session, [p \in AllAutoTasks |-> task[p]]>>

\* C13: once terminate() has cancelled the monitoring task, in whatever
\* state the loop was, the task has ended and not gone to its failure
\* handling, no check of the cycle is running, the session is not open, and
\* from then on the loop and its checks take no step: no fetch, no write of
\* the store, no notification.
C13_Cancellation ==
    /\ [](terminated =>
            /\ loop_pc = "cancelled"
            /\ \A p \in AllAutoTasks : task[p].pc \in {"idle", "done", "cancelled"}
            /\ session # "open")
    /\ [][terminated => UNCHANGED LoopView]_vars

\* terminate() came while a check was under way and the session was open
C13_Witness ==
    /\ terminated
    /\ session = "closed"
    /\ \E p \in AllAutoTasks : task[p].pc = "cancelled"

\* a check that is under way
Running(p) == task[p].pc \notin {"idle", "done", "cancelled"}

\* C14: a cycle has one check for each enabled service and none for any
\* other, each check makes one fetch, checks run (side by side) only while
\* the loop waits in gather, and a check starts only with the step that
\* starts a cycle, which the loop takes after the join and the interval
\* sleep: a check never starts while a check of the cycle before is left.
C14_CycleStructure ==
    /\ [](\A p \in AllAutoTasks :
            /\ Running(p) => loop_pc = "gather"
            /\ task[p].pc = "done" => loop_pc = "gather" \/ terminated
            /\ (loop_pc = "gather" /\ p[2] \in services) => task[p].pc # "idle"
            /\ p[2] \notin services => task[p].pc = "idle"
            /\ task[p].fetches <= 1
            /\ task[p].pc \in {"get_kv", "put_kv", "notify"} => task[p].fetches = 1
            /\ Completed(p) => task[p].fetches = 1)
    /\ [][\A p \in AllAutoTasks :
            (task[p].pc # "delay" /\ task'[p].pc = "delay") =>
                /\ loop_pc = "cycle" /\ loop_pc' = "gather"
                /\ \A q \in AllAutoTasks : task[q].pc = "idle"]_vars

\* the checks of two services under way at the same time, at different
\* places, in a cycle after the first
C14_Witness ==
    /\ loop_pc = "gather"
    /\ task[<<"auto", "svcA">>].pc = "get_kv"
    /\ task[<<"auto", "svcB">>].pc = "notify"

\* C15: when a change is notified, send_message is called once for every
\* recipient of the list, in order, whichever of the calls raised, and
\* what a call raised does not leave the notifier: the check ends with its
\* result and without an exception.
C15_IndependentDelivery ==
    \A p \in AllAutoTasks :
        /\ task[p].pc \in {"notify", "done"} =>
              /\ Len(task[p].sends) <= Len(notify_targets)
              /\ \A i \in 1..Len(task[p].sends) : task[p].sends[i] = notify_targets[i]
        /\ task[p].pc = "notify" => Len(task[p].sends) < Len(notify_targets)
        /\ (task[p].pc = "done" /\ WillNotify("auto", task[p].result)) =>
              /\ task[p].sends = notify_targets
              /\ task[p].exc = NoneVal

\* the first send raised and the send to the next recipient was made
C15_Witness ==
    \E p \in AllAutoTasks :
        /\ task[p].pc = "done"
        /\ task[p].failed_at = 1
        /\ Len(task[p].sends) >= 2
        /\ task[p].sends = notify_targets

\* the events of a vendor payload
EventsOf(data) == Get(data, "data", << >>)

\* two lists with the same events, each as often in one as in the other
Permutation(es, fs) ==
    /\ Len(es) = Len(fs)
    /\ \A e \in Events : Cardinality({i \in 1..Len(es) : es[i] = e})
                           = Cardinality({i \in 1..Len(fs) : fs[i] = e})

\* C16: AliyunAdapter gives an empty event list indicator "none" and the
\* identity "empty_list"; it gives one event the identity "events_<id>",
\* two events "events_<a>,<b>" with a before b in string order; and two
\* payloads that list the same events in different orders get the same
\* identity.
C16_ReorderStability ==
    LET c == adapter_call
        es == EventsOf(c.data)
        IdOf(e) == Get(e, "id", "unknown")
    IN  (c.adapter = "AliyunAdapter" /\ c.out.kind = "dict") =>
           /\ es = << >> => c.out.indicator = "none" /\ c.out.id = "empty_list"
           /\ Len(es) = 1 => c.out.id = "events_" \o IdOf(es[1])
           /\ Len(es) = 2 =>
                 \E i, j \in 1..2 :
                    /\ i # j
                    /\ Rank(IdOf(es[i])) <= Rank(IdOf(es[j]))
                    /\ c.out.id = "events_" \o IdOf(es[i]) \o "," \o IdOf(es[j])
           /\ (c.prev_adapter = "AliyunAdapter" /\ c.prev_out.kind = "dict"
               /\ Permutation(EventsOf(c.prev_data), es)) => c.out.id = c.prev_out.id

\* the same two events in the two orders, one call after the other
C16_Witness ==
    /\ adapter_call.adapter = "AliyunAdapter"
    /\ adapter_call.prev_adapter = "AliyunAdapter"
    /\ EventsOf(adapter_call.prev_data) = <<[id |-> "2"], [id |-> "10"]>>
    /\ EventsOf(adapter_call.data) = <<[id |-> "10"], [id |-> "2"]>>
    /\ adapter_call.out.id = "events_10,2"
    /\ adapter_call.prev_out.id = "events_10,2"

\* two status objects that differ in one of indicator and description only
DiffersInOne(st1, st2) ==
    /\ DOMAIN st1 = {"indicator", "description"}
    /\ DOMAIN st2 = {"indicator", "description"}
    /\ \/ st1.indicator = st2.indicator /\ st1.description # st2.description
       \/ st1.indicator # st2.indicator /\ st1.description = st2.description

\* C17: two status-page payloads that differ in the description alone, or
\* in the indicator alone, get different identities, from StatusPageAdapter
\* and from get_status_info.
C17_ChangeSensitivity ==
    LET c == adapter_call
    IN  (/\ c.adapter \in {"StatusPageAdapter", "get_status_info/statuspage"}
         /\ c.prev_adapter = c.adapter
         /\ c.out.kind = "dict" /\ c.prev_out.kind = "dict"
         /\ "status" \in DOMAIN c.data /\ "status" \in DOMAIN c.prev_data
         /\ DiffersInOne(c.prev_data.status, c.data.status))
        => c.out.id # c.prev_out.id

\* the first entry of a parsed feed has a non-empty value for key k
HasValue(data, k) ==
    k \in DOMAIN data.entries[1] /\ data.entries[1][k] # ""

\* what RSSAdapter and get_status_info do with a feed, the indicator of the
\* empty feed left open
FeedRule(c, empty_indicator) ==
    (c.adapter \in {"RSSAdapter", "get_status_info/rss"} /\ c.out.kind = "dict") =>
        IF Get(c.data, "entries", << >>) = << >>
        THEN c.out.indicator = empty_indicator /\ c.out.id = "empty"
        ELSE /\ HasValue(c.data, "id") => c.out.id = c.data.entries[1].id
             /\ (~HasValue(c.data, "id") /\ HasValue(c.data, "published")) =>
                   c.out.id = c.data.entries[1].published
             /\ (~HasValue(c.data, "id") /\ ~HasValue(c.data, "published")
                 /\ HasValue(c.data, "link")) => c.out.id = c.data.entries[1].link

\* C18 as stated: a feed without entries gives indicator "none-updates" and
\* identity "empty"; a feed with entries gives the id of its first entry,
\* else its published date, else its link, the first non-empty one.
C18_FeedNormalisation_NoneUpdates == FeedRule(adapter_call, "none-updates")

\* C18: a feed without entries gives indicator "none" and identity
\* "empty"; a feed with entries gives the id of its first entry, else its
\* published date, else its link, the first non-empty one.
C18_FeedNormalisation == FeedRule(adapter_call, "none")

\* an empty feed given to get_status_info, then a feed whose first entry
\* has an empty id and a date given to RSSAdapter
C18_Witness ==
    /\ adapter_call.prev_adapter = "get_status_info/rss"
    /\ Get(adapter_call.prev_data, "entries", <<1>>) = << >>
    /\ adapter_call.prev_out.indicator = "none"
    /\ adapter_call.prev_out.id = "empty"
    /\ adapter_call.adapter = "RSSAdapter"
    /\ Len(Get(adapter_call.data, "entries", << >>)) = 2
    /\ Get(adapter_call.data.entries[1], "id", "x") = ""
    /\ adapter_call.out.id = "p1"

\* the snapshot the vendor-incidents rules give for a list of events
VendorSnapshot(body) ==
    AliyunAdapter_fetch_status([kind |-> "dict", size |-> 2, data |-> body])

\* C19: an automatic check of the enabled vendor service that returns a
\* result has normalised what the endpoint listed by the vendor-incidents
\* rules, and when the identity stored by the check before differs from
\* that of the events now listed, it reports a change and notifies every
\* recipient.
C19_VendorDispatch ==
    LET t == task[<<"auto", "svcC">>]
    IN  Completed(<<"auto", "svcC">>) =>
           /\ t.result.info.id = VendorSnapshot(t.body).id
           /\ (t.last_id # NoneVal /\ t.last_id # VendorSnapshot(t.body).id) =>
                 /\ t.result.changed
                 /\ t.pc = "done" => t.sends = notify_targets


\* C20: an automatic check whose fetch failed (network error, timeout,
\* non-200 status, parse error) has ended with no result and without an
\* exception, has called neither get_kv_data nor put_kv_data, has sent
\* nothing, and no step that leads to or leaves such a check changes the
\* identity stored for its service: the next check compares with what was
\* stored before.
C20_FailedCheckSilent ==
    /\ [](\A p \in AllAutoTasks :
            task[p].fetch_failed =>
                /\ task[p].pc = "done"
                /\ task[p].result = NoneResult
                /\ task[p].exc = NoneVal
                /\ ~task[p].read
                /\ ~task[p].wrote
                /\ task[p].sends = << >>)
    /\ [][\A p \in AllAutoTasks :
            (task[p].fetch_failed \/ task'[p].fetch_failed) =>
                kv'[KvKey(p[2])] = kv[KvKey(p[2])]]_vars

\* C21: after an automatic check of a service has returned a result, an
\* identity is stored for the service, and an identity that is stored is
\* never made absent again: only the first check that returns a result
\* finds none and is the baseline.
C21_IdentityLifecycle ==
    /\ [](\A p \in AllAutoTasks : Completed(p) => kv[KvKey(p[2])] # NoneVal)
    /\ [][\A s \in Catalog : kv[KvKey(s)] # NoneVal => kv'[KvKey(s)] # NoneVal]_vars

\* C22: for the same status-page payload, get_status_info, which
\* check_service calls, and StatusPageAdapter give the same identity and
\* the same description; likewise get_status_info and RSSAdapter for the
\* same parsed feed.
C22_PipelineRefinesAdapters ==
    LET c == adapter_call
    IN  (/\ \/ c.prev_adapter = "get_status_info/statuspage" /\ c.adapter = "StatusPageAdapter"
            \/ c.prev_adapter = "get_status_info/rss" /\ c.adapter = "RSSAdapter"
         /\ c.prev_data = c.data
         /\ c.prev_out.kind = "dict" /\ c.out.kind = "dict")
        => /\ c.out.id = c.prev_out.id
           /\ c.out.description = c.prev_out.description

\* C23: an automatic check that notifies, or that found a change, has
\* written the new identity to the store before, whether or not a send
\* raised and whether or not there is a recipient; a send is made only by
\* a check that found the stored identity different from the fetched one,
\* one recipient at a time; and a check that finds the fetched identity
\* equal to the stored one sends nothing.
C23_StoreBeforeNotify ==
    /\ [](\A p \in AllAutoTasks :
            /\ (task[p].pc = "notify" \/ task[p].sends # << >>
                \/ (Completed(p) /\ task[p].result.changed)) =>
                  /\ task[p].wrote
                  /\ kv[KvKey(p[2])] = task[p].result.info.id
            /\ (Completed(p) /\ task[p].last_id = task[p].result.info.id) =>
                  /\ task[p].pc = "done"
                  /\ task[p].sends = << >>)
    /\ [][\A p \in AllAutoTasks :
            (task'[p].sends # task[p].sends /\ task'[p].sends # << >>) =>
                /\ task[p].wrote
                /\ task[p].last_id # NoneVal
                /\ task[p].last_id # task[p].result.info.id
                /\ Len(task'[p].sends) = Len(task[p].sends) + 1]_vars

\* a change was stored and every send of its notification was made, one
\* of them raising
C23_Witness ==
    \E p \in AllAutoTasks :
        /\ task[p].pc = "done"
        /\ task[p].failed_at >= 1
        /\ task[p].wrote
        /\ task[p].sends = notify_targets
        /\ kv[KvKey(p[2])] = task[p].result.info.id

\* a step of either command or of a check a command started: it changes
\* the command's record or the record of one of its checks
ManualStep ==
    \/ cmd' # cmd
    \/ \E p \in {"status", "test"} \X Catalog : task'[p] # task[p]

\* C24: however the steps of a servicestatus or servicetest command fall
\* between the steps of the automatic check of the same service, they
\* change neither the store nor the check; the identity stored for a
\* service changes only by the write of its own automatic check, so the
\* identity that check read is still the stored one when it writes; and
\* an automatic check that found the stored identity different from the
\* fetched one reports the change and sends to every recipient once.
C24_ManualAutomaticRace ==
    /\ [][/\ ManualStep => UNCHANGED <<kv, [p \in AllAutoTasks |-> task[p]]>>
          /\ \A s \in Catalog :
                kv'[KvKey(s)] # kv[KvKey(s)] =>
                    /\ task[<<"auto", s>>].pc = "put_kv"
                    /\ task'[<<"auto", s>>].wrote]_vars
    /\ [](\A p \in AllAutoTasks :
            /\ task[p].pc = "put_kv" => kv[KvKey(p[2])] = task[p].last_id
            /\ (Completed(p) /\ task[p].pc = "done" /\ task[p].last_id # NoneVal
                /\ task[p].last_id # task[p].result.info.id) =>
                  /\ task[p].result.changed
                  /\ task[p].sends = notify_targets)

\* a servicetest of a service is under way while the automatic check of
\* the same service, between its read and its write of the store, has found
\* a change
C24_Witness ==
    /\ cmd.command = "servicetest"
    /\ cmd.pc = "test_yielded"
    /\ cmd.name \in services
    /\ task[<<"auto", cmd.name>>].pc = "put_kv"
    /\ task[<<"auto", cmd.name>>].last_id # NoneVal
    /\ notify_targets # << >>

=============================================================================
